---- MODULE Spec2Model ----
(***************************************************************************)
(* Model of the cyberbullying-detection backend: the FastAPI application   *)
(* of backend/api.py (review queue, moderation log, retraining            *)
(* orchestrator) and the training job it spawns (retrain_model.py).        *)
(*                                                                         *)
(* Python's None is the empty sequence <<>>, a present value v is <<v>>.   *)
(* A dict is a record; dict.get is Get.                                    *)
(***************************************************************************)
EXTENDS Integers, Sequences, FiniteSets, TLC

VARIABLES
    pending_queue,      \* api.py:143  dict comment_id -> {text, confidence}, in insertion order
    moderator_actions,  \* models.py:36  rows of the moderator_actions table, in insertion order
    _current_proc,      \* api.py:144  module-level handle of the retraining subprocess
    procs,              \* the child processes spawned by create_subprocess_exec
    gens,               \* the gen() generators of the /retrain/stream responses
    workers,            \* threadpool workers inside delete_from_queue
    reply,              \* the response of the handler, or the result of the script, that returned last
    disk,               \* the files train.csv, merged_train.csv and backend/best_model.pt
    trainer             \* retrain_model.py: the locals of retrain_main and the events it printed

vars == <<pending_queue, moderator_actions, _current_proc, procs, gens, workers, reply,
          disk, trainer>>

-----------------------------------------------------------------------------
(* Bounds *)

MaxStreams == 2     \* /retrain/stream requests
MaxLines   == 2     \* lines the training jobs write before their last one
MaxLog     == 2     \* rows in moderator_actions

-----------------------------------------------------------------------------
(* Values *)

None == <<>>
Some(v) == <<v>>

Get(d, k) == IF k \in DOMAIN d THEN Some(d[k]) ELSE None

Ids     == {"c1", "c2"}
Texts   == {"you are dumb", "go away"}
Actions == {"approved", "rejected", "spam"}
Workers == {1, 2}   \* threads of the pool that runs the def (not async def) handlers

\* probs[1] of the two-class softmax, in tenths; the label is cyberbully
\* iff probs[1] > 0.5, the confidence is probs.max()
Probs     == {3, 5, 7}
Threshold == 5

\* Lines retrain_model.py and the libraries under it write to the pipe
\* (stderr is merged into stdout), without their trailing newline.
ProgressLine == "{\"type\": \"progress\"}"
CompleteLine == "{\"type\": \"complete\", \"best_f1\": 0.9}"
NumberLine   == "42"
TraceLine    == "Traceback (most recent call last):"
FrameLine    == "  File \"retrain_model.py\", line 54"
EmptyLine    == ""

\* What a job may write before its last lines.
JobLines == {ProgressLine, NumberLine, EmptyLine}

\* The traceback of an uncaught exception.
Traceback == <<TraceLine, FrameLine>>

-----------------------------------------------------------------------------
(* str.strip() and json.loads() on the lines above (all of them UTF-8) *)

\* str.strip(): leading and trailing whitespace removed
Strip(text) ==
    IF text = FrameLine THEN "File \"retrain_model.py\", line 54" ELSE text

\* json.loads(text)
JsonLoads(text) ==
    CASE text = ProgressLine -> [ok |-> TRUE, isdict |-> TRUE, value |-> [type |-> "progress"]]
      [] text = CompleteLine -> [ok |-> TRUE, isdict |-> TRUE,
                                 value |-> [type |-> "complete", best_f1 |-> "0.9"]]
      [] text = NumberLine   -> [ok |-> TRUE, isdict |-> FALSE, value |-> 42]
      [] OTHER               -> [ok |-> FALSE, exc |-> "JSONDecodeError"]

\* One iteration of the read loop on a line that was read: the event it
\* yields, or the exception that leaves the generator.
Forward(line) ==
    LET text    == Strip(line)
        parsed  == JsonLoads(text)
        payload == IF parsed.ok THEN parsed
                   ELSE [ok |-> TRUE, isdict |-> TRUE,
                         value |-> [type |-> "raw", line |-> text]]
    IN  IF ~payload.isdict
        THEN [ok |-> FALSE, exc |-> "AttributeError"]
        ELSE [ok |-> TRUE, event |-> payload.value]

FinalEvent == [type |-> "complete"]

-----------------------------------------------------------------------------
(* The training job: a child process running retrain_model.py *)

NewProc == [pc |-> "train", out |-> <<>>, rd |-> 0, returncode |-> None, sigint |-> FALSE]

Running(p) == procs[p].returncode = None

RunningProcs == {p \in DOMAIN procs : Running(p)}

RECURSIVE SumLen(_, _)
SumLen(ps, n) == IF n = 0 THEN 0 ELSE Len(ps[n].out) + SumLen(ps, n - 1)

TotalLines == SumLen(procs, Len(procs))

\* The job writes one line: a print of retrain_main or a line on stderr.
JobPrint(p, line) ==
    /\ procs[p].pc = "train"
    /\ TotalLines < MaxLines
    /\ procs' = [procs EXCEPT ![p].out = Append(@, line)]
    /\ UNCHANGED <<pending_queue, moderator_actions, _current_proc, disk, trainer, gens, workers, reply>>

\* retrain_main reaches its last statement and prints the complete event.
JobComplete(p) ==
    /\ procs[p].pc = "train"
    /\ procs' = [procs EXCEPT ![p].out = Append(@, CompleteLine), ![p].pc = "return"]
    /\ UNCHANGED <<pending_queue, moderator_actions, _current_proc, disk, trainer, gens, workers, reply>>

\* The interpreter exits after retrain_main returned.
JobExit(p) ==
    /\ procs[p].pc = "return"
    /\ procs' = [procs EXCEPT ![p].pc = "exited", ![p].returncode = Some(0)]
    /\ UNCHANGED <<pending_queue, moderator_actions, _current_proc, disk, trainer, gens, workers, reply>>

\* An uncaught exception (KeyboardInterrupt after SIGINT, or any other)
\* ends the job: the traceback goes to the pipe, the exit status is not 0.
JobCrash(p) ==
    /\ procs[p].pc = "train"
    /\ procs' = [procs EXCEPT ![p].out = @ \o Traceback,
                              ![p].pc = "exited",
                              ![p].returncode = IF procs[p].sigint THEN Some(-2) ELSE Some(1)]
    /\ UNCHANGED <<pending_queue, moderator_actions, _current_proc, disk, trainer, gens, workers, reply>>

-----------------------------------------------------------------------------
(* Retraining endpoints *)

\* POST /retrain
retrain_trigger ==
    /\ reply' = [op |-> "retrain", status |-> 200, message |-> "Retraining started"]
    /\ UNCHANGED <<pending_queue, moderator_actions, _current_proc, disk, trainer, procs, gens, workers>>

\* GET /retrain/stream: the handler returns a StreamingResponse over a new
\* gen(), whose first step is create_subprocess_exec. The assignment binds the
\* _current_proc of gen's own scope: the module-level one is not written.
retrain_stream ==
    /\ Len(gens) < MaxStreams
    /\ procs' = Append(procs, NewProc)
    /\ gens' = Append(gens, [pc |-> "read", _current_proc |-> Some(Len(procs) + 1),
                             sent |-> <<>>])
    /\ reply' = [op |-> "stream", status |-> 200, message |-> "text/event-stream"]
    /\ UNCHANGED <<pending_queue, moderator_actions, _current_proc, disk, trainer, workers>>

\* gen(): one iteration of the read loop. readline() returns the next line of
\* the pipe, or blocks, or returns b"" at end of file; the loop is then left,
\* wait() returns at once (the process has exited), the appended event is
\* yielded and the generator ends.
gen_readline(s) ==
    /\ gens[s].pc = "read"
    /\ LET p == gens[s]._current_proc[1] IN
       IF procs[p].rd < Len(procs[p].out)
       THEN LET f == Forward(procs[p].out[procs[p].rd + 1]) IN
            /\ procs' = [procs EXCEPT ![p].rd = @ + 1]
            /\ gens' = IF f.ok
                       THEN [gens EXCEPT ![s].sent = Append(@, f.event)]
                       ELSE [gens EXCEPT ![s].pc = "raised"]
       ELSE /\ procs[p].returncode # None
            /\ gens' = [gens EXCEPT ![s].sent = Append(@, FinalEvent), ![s].pc = "done"]
            /\ UNCHANGED procs
    /\ UNCHANGED <<pending_queue, moderator_actions, _current_proc, disk, trainer, workers, reply>>

\* cancel_retrain without the test of the handle: every call is acknowledged
\* as a cancellation
cancel_retrain_unchecked ==
    /\ reply' = [op |-> "cancel", status |-> 200, message |-> "Cancel requested"]
    /\ UNCHANGED <<pending_queue, moderator_actions, _current_proc, disk, trainer, procs, gens, workers>>

\* POST /retrain/cancel
cancel_retrain ==
    IF _current_proc # None /\ procs[_current_proc[1]].returncode = None
    THEN /\ procs' = [procs EXCEPT ![_current_proc[1]].sigint = TRUE]
         /\ reply' = [op |-> "cancel", status |-> 200, message |-> "Cancel requested"]
         /\ UNCHANGED <<pending_queue, moderator_actions, _current_proc, disk, trainer, gens, workers>>
    ELSE /\ reply' = [op |-> "cancel", status |-> 200, message |-> "No training in progress"]
         /\ UNCHANGED <<pending_queue, moderator_actions, _current_proc, disk, trainer, procs, gens, workers>>

-----------------------------------------------------------------------------
(* pending_queue: a dict, kept as the sequence of its items in insertion    *)
(* order, each [comment_id, text, confidence]                               *)

Keys(q) == {q[i].comment_id : i \in DOMAIN q}

\* q[cid]
Lookup(q, cid) == (CHOOSE i \in DOMAIN q : q[i].comment_id = cid)

\* A list append in place of the dict assignment
SetItem_append(q, cid, text, confidence) ==
    Append(q, [comment_id |-> cid, text |-> text, confidence |-> confidence])

\* q[cid] = {"text": text, "confidence": confidence}: an existing key keeps
\* its place, a new one goes last
SetItem(q, cid, text, confidence) ==
    LET item == [comment_id |-> cid, text |-> text, confidence |-> confidence] IN
    IF cid \in Keys(q)
    THEN [i \in DOMAIN q |-> IF q[i].comment_id = cid THEN item ELSE q[i]]
    ELSE Append(q, item)

\* del that leaves the dict as it was
DelItem_keeps(q, cid) == q

\* del q[cid], for a key that is present
DelItem(q, cid) ==
    LET Other(item) == item.comment_id # cid IN SelectSeq(q, Other)

-----------------------------------------------------------------------------
(* Detection, queue and moderation endpoints *)

\* POST /detect. p1 is probs[1]; raises: the tokenizer or the model raised.
detect(cid, text, p1, raises) ==
    /\ IF raises
       THEN /\ reply' = [op |-> "detect", status |-> 500,
                         message |-> "Internal detection error"]
            /\ UNCHANGED pending_queue
       ELSE LET label      == IF p1 > Threshold THEN "cyberbully" ELSE "non-cyberbully"
                confidence == IF p1 > 10 - p1 THEN p1 ELSE 10 - p1
            IN  /\ pending_queue' = IF label = "cyberbully"
                                    THEN SetItem(pending_queue, cid, text, confidence)
                                    ELSE pending_queue
                /\ reply' = [op |-> "detect", status |-> 200, message |-> label]
    /\ UNCHANGED <<moderator_actions, _current_proc, disk, trainer, procs, gens, workers>>

\* GET /queue
get_queue ==
    /\ reply' = [op |-> "queue", status |-> 200, message |-> "",
                 body |-> [i \in DOMAIN pending_queue |->
                              [comment_id |-> pending_queue[i].comment_id,
                               text       |-> pending_queue[i].text,
                               label      |-> "cyberbully",
                               confidence |-> pending_queue[i].confidence]]]
    /\ UNCHANGED <<pending_queue, moderator_actions, _current_proc, disk, trainer, procs, gens, workers>>

\* DELETE /queue/{comment_id}, in a pool thread: the membership test
delete_from_queue(w, cid) ==
    /\ workers[w].pc = "idle"
    /\ IF cid \in Keys(pending_queue)
       THEN /\ workers' = [workers EXCEPT ![w] = [pc |-> "del", comment_id |-> cid]]
            /\ UNCHANGED reply
       ELSE /\ reply' = [op |-> "delete", status |-> 404,
                         message |-> "Comment not found in queue"]
            /\ UNCHANGED workers
    /\ UNCHANGED <<pending_queue, moderator_actions, _current_proc, disk, trainer, procs, gens>>

\* DELETE /queue/{comment_id}: the del statement and the return; del raises
\* KeyError for a key that is gone, which the server answers with 500
delete_from_queue_del(w) ==
    /\ workers[w].pc = "del"
    /\ workers' = [workers EXCEPT ![w] = [pc |-> "idle", comment_id |-> ""]]
    /\ IF workers[w].comment_id \in Keys(pending_queue)
       THEN /\ pending_queue' = DelItem(pending_queue, workers[w].comment_id)
            /\ reply' = [op |-> "delete", status |-> 200, message |-> "removed from queue."]
       ELSE /\ reply' = [op |-> "delete", status |-> 500, message |-> "Internal Server Error"]
            /\ UNCHANGED pending_queue
    /\ UNCHANGED <<moderator_actions, _current_proc, disk, trainer, procs, gens>>

\* save_moderator_action with comment_id and text passed in each other's place
save_moderator_action_swapped(comment_id, text, action, now) ==
    [comment_id |-> text, text |-> comment_id, action |-> action, timestamp |-> now]

\* save_moderator_action: the row that db.add and db.commit insert
save_moderator_action(comment_id, text, action, now) ==
    [comment_id |-> comment_id, text |-> text, action |-> action, timestamp |-> now]

\* handle_action that saves before it looks at what pop returned
handle_action_save_first(cid, action, now, committed) ==
    /\ Len(moderator_actions) < MaxLog
    /\ IF cid \notin Keys(pending_queue)
       THEN /\ moderator_actions' =
                  Append(moderator_actions, save_moderator_action(cid, "", action, now))
            /\ reply' = [op |-> "action", status |-> 404, message |-> "Comment not found"]
            /\ UNCHANGED pending_queue
       ELSE /\ pending_queue' = DelItem(pending_queue, cid)
            /\ moderator_actions' =
                  Append(moderator_actions,
                         save_moderator_action(cid, pending_queue[Lookup(pending_queue, cid)].text,
                                               action, now))
            /\ reply' = [op |-> "action", status |-> 200, message |-> "Action recorded"]
    /\ UNCHANGED <<_current_proc, disk, trainer, procs, gens, workers>>

\* POST /action, on the event loop. now is datetime.utcnow(); committed: db.commit()
\* returned, rather than raised
handle_action(cid, action, now, committed) ==
    /\ Len(moderator_actions) < MaxLog
    /\ IF cid \notin Keys(pending_queue)
       THEN /\ reply' = [op |-> "action", status |-> 404, message |-> "Comment not found"]
            /\ UNCHANGED <<pending_queue, moderator_actions>>
       ELSE LET comment == pending_queue[Lookup(pending_queue, cid)] IN
            /\ pending_queue' = DelItem(pending_queue, cid)
            /\ IF committed
               THEN /\ moderator_actions' =
                          Append(moderator_actions,
                                 save_moderator_action(cid, comment.text, action, now))
                    /\ reply' = [op |-> "action", status |-> 200,
                                 message |-> "Action recorded"]
               ELSE /\ reply' = [op |-> "action", status |-> 500,
                                 message |-> "Internal Server Error"]
                    /\ UNCHANGED moderator_actions
    /\ UNCHANGED <<_current_proc, disk, trainer, procs, gens, workers>>

\* Values of datetime.utcnow(), in seconds
Times == {1, 2, 3}

\* datetime.isoformat() and its inverse
IsoFormat(t) == <<"2025-01-01T00:00:01", "2025-01-01T00:00:02", "2025-01-01T00:00:03">>[t]

FromIsoFormat(s) == CHOOSE t \in Times : IsoFormat(t) = s

\* The orders in which a query can return rows: every row once
RowOrders(rows) ==
    {p \in [DOMAIN rows -> DOMAIN rows] : \A i, j \in DOMAIN rows : i # j => p[i] # p[j]}

\* ORDER BY timestamp ASC
OrderByTimestampAsc(rows) ==
    {[i \in DOMAIN rows |-> rows[p[i]]] :
        p \in {q \in RowOrders(rows) :
                  \A i, j \in DOMAIN rows :
                      i < j => rows[q[i]].timestamp <= rows[q[j]].timestamp}}

\* ORDER BY timestamp DESC: rows of equal timestamp come in any order
OrderByTimestampDesc(rows) ==
    {[i \in DOMAIN rows |-> rows[p[i]]] :
        p \in {q \in RowOrders(rows) :
                  \A i, j \in DOMAIN rows :
                      i < j => rows[q[i]].timestamp >= rows[q[j]].timestamp}}

\* GET /history
get_history ==
    /\ \E rows \in OrderByTimestampDesc(moderator_actions) :
          reply' = [op |-> "history", status |-> 200, message |-> "",
                    body |-> [i \in DOMAIN rows |->
                                 [comment_id |-> rows[i].comment_id,
                                  text       |-> rows[i].text,
                                  action     |-> rows[i].action,
                                  timestamp  |-> IsoFormat(rows[i].timestamp)]]]
    /\ UNCHANGED <<pending_queue, moderator_actions, _current_proc, disk, trainer, procs, gens, workers>>

-----------------------------------------------------------------------------
(* prepare_training_data.py: the feedback merged into the training set *)

\* ORDER BY comment_id
IdOrder == <<"c1", "c2">>

\* WHERE action IN ('approved', 'rejected')
ValidRows(log) == {i \in DOMAIN log : log[i].action \in {"approved", "rejected"}}

\* ORDER BY comment_id, timestamp ASC: the rows that can come first for cid
FirstOf_oldest(log, cid) ==
    {i \in ValidRows(log) :
        /\ log[i].comment_id = cid
        /\ \A j \in ValidRows(log) :
               log[j].comment_id = cid => log[j].timestamp >= log[i].timestamp}

\* ORDER BY comment_id, timestamp DESC: the rows that can come first for cid
\* (of rows with equal timestamps, any)
FirstOf(log, cid) ==
    {i \in ValidRows(log) :
        /\ log[i].comment_id = cid
        /\ \A j \in ValidRows(log) :
               log[j].comment_id = cid => log[j].timestamp <= log[i].timestamp}

\* pd.read_sql(query, conn): SELECT DISTINCT ON (comment_id) keeps the first row
\* of each comment_id; the frames the query can return
ReadSql(log) ==
    LET Present(cid) == FirstOf(log, cid) # {}
        present == SelectSeq(IdOrder, Present)
        cids == {present[k] : k \in DOMAIN present}
    IN  {[k \in DOMAIN present |->
             [comment_id |-> log[f[present[k]]].comment_id,
              text       |-> log[f[present[k]]].text,
              action     |-> log[f[present[k]]].action]] :
            f \in {g \in [cids -> DOMAIN log] : \A cid \in cids : g[cid] \in FirstOf(log, cid)}}

\* df["action"].map(label_map): NaN (None) for an action that is not a key
LabelMap(action) ==
    CASE action = "approved" -> Some(1)
      [] action = "rejected" -> Some(0)
      [] OTHER -> None

\* The rows of a frame at the indexes keep, in their order
Rows(frame, keep) ==
    [k \in 1..Cardinality(keep) |->
        frame[CHOOSE i \in keep : Cardinality({j \in keep : j < i}) = k - 1]]

\* dropna() on the columns clean_text, Label
DropNa(frame) ==
    LET kept == Rows(frame, {i \in DOMAIN frame : frame[i].Label # None})
    IN  [k \in DOMAIN kept |-> [clean_text |-> kept[k].clean_text, Label |-> kept[k].Label[1]]]

\* drop_duplicates(): the first of the rows that are equal
DropDuplicates(frame) ==
    Rows(frame, {i \in DOMAIN frame : \A j \in 1..(i - 1) : frame[j] # frame[i]})

\* drop_duplicates(subset="clean_text", keep="last")
DropDuplicatesByText_last(frame) ==
    Rows(frame, {i \in DOMAIN frame :
                    \A j \in (i + 1)..Len(frame) : frame[j].clean_text # frame[i].clean_text})

\* drop_duplicates(subset="clean_text"): the first of the rows of equal text
DropDuplicatesByText(frame) ==
    Rows(frame, {i \in DOMAIN frame :
                    \A j \in 1..(i - 1) : frame[j].clean_text # frame[i].clean_text})

\* np.random.RandomState(42).permutation(n), for n = 1..7
Perm42 ==
    << <<0>>, <<1, 0>>, <<0, 1, 2>>, <<1, 3, 0, 2>>, <<1, 4, 2, 0, 3>>,
       <<0, 1, 5, 2, 4, 3>>, <<0, 1, 5, 2, 4, 3, 6>> >>

\* sample(frac=1, random_state=42).reset_index(drop=True)
Sample(frame) == [i \in DOMAIN frame |-> frame[Perm42[Len(frame)][i] + 1]]

\* The frame that to_csv writes, from train.csv and the frame of read_sql
Merge(df_original, df_sql) ==
    LET labelled == [k \in DOMAIN df_sql |->
                        [clean_text |-> df_sql[k].text, Label |-> LabelMap(df_sql[k].action)]]
        df_feedback == DropDuplicates(DropNa(labelled))
    IN  Sample(DropDuplicatesByText(df_original \o df_feedback))

\* prepare_training_data without the test for an empty frame
prepare_training_data_unchecked ==
    /\ \E df_sql \in ReadSql(moderator_actions) :
          /\ disk' = [disk EXCEPT !.merged_train_csv = Some(Merge(disk.train_csv, df_sql))]
          /\ reply' = [op |-> "build", status |-> 0, message |-> "Final dataset saved"]
    /\ UNCHANGED <<pending_queue, moderator_actions, _current_proc, trainer, procs, gens, workers>>

\* python prepare_training_data.py, with the database and train.csv readable.
\* status is the exit status of the script.
prepare_training_data ==
    /\ \E df_sql \in ReadSql(moderator_actions) :
          IF df_sql = <<>>
          THEN /\ reply' = [op |-> "build", status |-> 0,
                            message |-> "No moderator feedback found."]
               /\ UNCHANGED disk
          ELSE /\ disk' = [disk EXCEPT !.merged_train_csv = Some(Merge(disk.train_csv, df_sql))]
               /\ reply' = [op |-> "build", status |-> 0, message |-> "Final dataset saved"]
    /\ UNCHANGED <<pending_queue, moderator_actions, _current_proc, trainer, procs, gens, workers>>

-----------------------------------------------------------------------------
(* retrain_model.py: the training loop *)

EPOCHS == 3

BATCH_SIZE == 8

\* len(train_loader) is at most MaxBatches
MaxBatches == 34

\* Values of the validation F1, in tenths
F1s == {0, 5, 8}

\* int(step/total_steps*100). The float expression and the integer quotient
\* agree for every step of every total_steps = EPOCHS * batches up to 147; the
\* first difference is step 87 of 150, where the float gives 57.
Prog(step, total_steps) == (step * 100) \div total_steps

\* if prog >= last_prog
ProgressIncreased_or_same(prog, last_prog) == prog >= last_prog

\* if prog > last_prog
ProgressIncreased(prog, last_prog) == prog > last_prog

\* if f1_score >= best_f1
Improves_or_equals(f1_score, best_f1) == f1_score >= best_f1

\* if f1_score > best_f1
Improves(f1_score, best_f1) == f1_score > best_f1

\* python retrain_model.py, up to the first epoch; batches is len(train_loader).
\* out is what the script has printed (device, avg_loss and the matrix, which
\* are measurements, are left out of the events).
retrain_main(batches) ==
    /\ trainer.pc = "idle"
    /\ trainer' = [pc          |-> "train",
                   batches     |-> batches,
                   total_steps |-> EPOCHS * batches,
                   epoch       |-> 1,
                   batch       |-> 0,
                   step        |-> 0,
                   best_f1     |-> 0,
                   last_prog   |-> -1,
                   out         |-> <<[type |-> "summary", epochs |-> EPOCHS,
                                      batch_size |-> BATCH_SIZE,
                                      total_steps |-> EPOCHS * batches],
                                     [type |-> "training_started"]>>]
    /\ UNCHANGED <<pending_queue, moderator_actions, _current_proc, disk, procs, gens, workers, reply>>

\* One pass of the body of `for batch in train_loader`
train_batch ==
    /\ trainer.pc = "train"
    /\ trainer.epoch <= EPOCHS
    /\ trainer.batch < trainer.batches
    /\ LET step == trainer.step + 1
           prog == Prog(step, trainer.total_steps)
       IN  trainer' =
             IF ProgressIncreased(prog, trainer.last_prog)
             THEN [trainer EXCEPT !.batch = @ + 1, !.step = step, !.last_prog = prog,
                                  !.out = Append(@, [type |-> "progress", epoch |-> trainer.epoch,
                                                     step |-> step, progress |-> prog])]
             ELSE [trainer EXCEPT !.batch = @ + 1, !.step = step]
    /\ UNCHANGED <<pending_queue, moderator_actions, _current_proc, disk, procs, gens, workers, reply>>

\* End of epoch: evaluate, which returns f1_score, and maybe save
epoch_end(f1_score) ==
    /\ trainer.pc = "train"
    /\ trainer.epoch <= EPOCHS
    /\ trainer.batch = trainer.batches
    /\ LET evaluated == trainer.out \o <<[type |-> "confusion_matrix"],
                                         [type |-> "epoch_end", epoch |-> trainer.epoch,
                                          f1 |-> f1_score]>>
       IN  IF Improves(f1_score, trainer.best_f1)
           THEN /\ disk' = [disk EXCEPT !.best_model_pt =
                                            [epoch |-> trainer.epoch, f1 |-> f1_score]]
                /\ trainer' = [trainer EXCEPT !.best_f1 = f1_score,
                                              !.epoch = @ + 1, !.batch = 0,
                                              !.out = Append(evaluated,
                                                             [type |-> "model_saved",
                                                              f1 |-> f1_score])]
           ELSE /\ trainer' = [trainer EXCEPT !.epoch = @ + 1, !.batch = 0,
                                              !.out = evaluated]
                /\ UNCHANGED disk
    /\ UNCHANGED <<pending_queue, moderator_actions, _current_proc, procs, gens, workers, reply>>

\* After the last epoch
retrain_done ==
    /\ trainer.pc = "train"
    /\ trainer.epoch > EPOCHS
    /\ trainer' = [trainer EXCEPT !.pc = "done",
                                  !.out = Append(@, [type |-> "complete",
                                                     best_f1 |-> trainer.best_f1])]
    /\ UNCHANGED <<pending_queue, moderator_actions, _current_proc, disk, procs, gens, workers, reply>>

\* SIGINT, or an exception in a training step: the script ends where it is
retrain_interrupted ==
    /\ trainer.pc = "train"
    /\ trainer' = [trainer EXCEPT !.pc = "killed"]
    /\ UNCHANGED <<pending_queue, moderator_actions, _current_proc, disk, procs, gens, workers, reply>>

-----------------------------------------------------------------------------
(* Specifications *)

NoReply == [op |-> "none", status |-> 0, message |-> ""]

\* The files before any script ran: the base dataset, no merged dataset, and
\* the checkpoint the server loads at startup.
DiskAtStart ==
    [train_csv        |-> <<[clean_text |-> "go away", Label |-> 0]>>,
     merged_train_csv |-> None,
     best_model_pt    |-> [epoch |-> 0, f1 |-> 0]]

\* retrain_model.py has not been run.
NotStarted == [pc |-> "idle"]

Init ==
    /\ pending_queue = <<>>
    /\ moderator_actions = <<>>
    /\ _current_proc = None
    /\ procs = <<>>
    /\ gens = <<>>
    /\ workers = [w \in Workers |-> [pc |-> "idle", comment_id |-> ""]]
    /\ reply = NoReply
    /\ disk = DiskAtStart
    /\ trainer = NotStarted

\* The review queue and the moderation log
Next ==
    \/ \E cid \in Ids, text \in Texts, p1 \in Probs, raises \in BOOLEAN :
          detect(cid, text, p1, raises)
    \/ get_queue
    \/ \E cid \in Ids : delete_from_queue(1, cid)
    \/ delete_from_queue_del(1)
    \/ \E cid \in Ids, action \in Actions, committed \in BOOLEAN :
          handle_action(cid, action, 1, committed)

Spec == Init /\ [][Next]_vars

\* The retraining orchestrator and its jobs
NextRetrain ==
    \/ retrain_trigger
    \/ retrain_stream
    \/ cancel_retrain
    \/ \E s \in DOMAIN gens : gen_readline(s)
    \/ \E p \in DOMAIN procs, line \in JobLines : JobPrint(p, line)
    \/ \E p \in DOMAIN procs : JobComplete(p)
    \/ \E p \in DOMAIN procs : JobExit(p)
    \/ \E p \in DOMAIN procs : JobCrash(p)

SpecRetrain == Init /\ [][NextRetrain]_vars

\* The orchestrator beside a review queue and a moderation log in use
NextServer ==
    \/ retrain_trigger
    \/ retrain_stream
    \/ cancel_retrain
    \/ \E s \in DOMAIN gens : gen_readline(s)
    \/ \E p \in DOMAIN procs : JobPrint(p, ProgressLine)
    \/ \E p \in DOMAIN procs : JobComplete(p)
    \/ \E p \in DOMAIN procs : JobExit(p)
    \/ \E p \in DOMAIN procs : JobCrash(p)
    \/ detect("c1", "go away", 7, FALSE)
    \/ handle_action("c1", "approved", 1, TRUE)

SpecServer == Init /\ [][NextServer]_vars

\* Dismissals and moderation actions racing: two pool threads and the event loop
NextRace ==
    \/ \E cid \in Ids : detect(cid, "go away", 7, FALSE)
    \/ \E w \in Workers, cid \in Ids : delete_from_queue(w, cid)
    \/ \E w \in Workers : delete_from_queue_del(w)
    \/ \E cid \in Ids : handle_action(cid, "approved", 1, TRUE)

SpecRace == Init /\ [][NextRace]_vars

\* The moderation log written at any clock readings, and read back
NextHistory ==
    \/ \E cid \in Ids : detect(cid, "go away", 7, FALSE)
    \/ \E cid \in Ids, action \in {"approved", "rejected"}, now \in Times :
          handle_action(cid, action, now, TRUE)
    \/ get_history

SpecHistory == Init /\ [][NextHistory]_vars

\* The rows handle_action can have written
LogRows ==
    {save_moderator_action(cid, text, action, now) :
        cid \in Ids, text \in Texts, action \in Actions, now \in Times}

\* The moderation logs of at most n rows
Logs(n) == UNION {[1..k -> LogRows] : k \in 0..n}

\* train.csv as the operator provides it
TrainCsvs ==
    {DiskAtStart.train_csv,
     <<[clean_text |-> "nice day", Label |-> 1]>>,
     <<[clean_text |-> "go away", Label |-> 1], [clean_text |-> "go away", Label |-> 0]>>}

\* merged_train.csv before the script runs: absent, or left by an earlier run
MergedCsvs ==
    {None, Some(<<[clean_text |-> "go away", Label |-> 0]>>)}

\* The dataset builder run against a moderation log that the server has written
InitBuild ==
    /\ pending_queue = <<>>
    /\ moderator_actions \in Logs(MaxLog)
    /\ _current_proc = None
    /\ procs = <<>>
    /\ gens = <<>>
    /\ workers = [w \in Workers |-> [pc |-> "idle", comment_id |-> ""]]
    /\ reply = NoReply
    /\ \E train \in TrainCsvs, merged \in MergedCsvs :
          disk = [DiskAtStart EXCEPT !.train_csv = train, !.merged_train_csv = merged]
    /\ trainer = NotStarted

NextBuild == prepare_training_data

SpecBuild == InitBuild /\ [][NextBuild]_vars

\* One run of the training script
NextTrain ==
    \/ \E batches \in 1..MaxBatches : retrain_main(batches)
    \/ train_batch
    \/ \E f1_score \in F1s : epoch_end(f1_score)
    \/ retrain_done
    \/ retrain_interrupted

SpecTrain == Init /\ [][NextTrain]_vars

\* The review queue under every classification outcome, listed and emptied
NextQueue ==
    \/ \E cid \in Ids, text \in Texts, p1 \in Probs, raises \in BOOLEAN :
          detect(cid, text, p1, raises)
    \/ get_queue
    \/ \E cid \in Ids : delete_from_queue(1, cid)
    \/ delete_from_queue_del(1)
    \/ \E cid \in Ids : handle_action(cid, "approved", 1, TRUE)

SpecQueue == Init /\ [][NextQueue]_vars

-----------------------------------------------------------------------------
(* Claims about the retraining orchestrator *)

\* C1: in every reachable state at most one training job (child process) is
\* running, whatever start(), stream() and cancel() calls were made.
C1_AtMostOneRunningJob == Cardinality(RunningProcs) <= 1

IsTerminal(event) ==
    Get(event, "type") \in {Some("complete"), Some("cancelled"), Some("failed")}

Terminals(events) == {i \in DOMAIN events : IsTerminal(events[i])}

\* C2: the events delivered to a subscriber that consumed the stream to its
\* end hold exactly one terminal event (complete, cancelled or failed),
\* counting the job's own events and the one the orchestrator appends.
C2_ExactlyOneTerminalEvent ==
    \A s \in DOMAIN gens :
        gens[s].pc = "done" => Cardinality(Terminals(gens[s].sent)) = 1

\* C3: a cancel() made while a spawned job is running sends that job the
\* interrupt and reports "Cancel requested", never "No training in progress".
C3_CancelInterruptsRunningJob ==
    [][(cancel_retrain /\ RunningProcs # {}) =>
           /\ reply'.message = "Cancel requested"
           /\ \E p \in RunningProcs : procs'[p].sigint]_vars

\* C4: a cancel() made when no job is running reports "No training in
\* progress" with a success status and leaves the job handle, the jobs, the
\* review queue and the moderation log unchanged.
C4_CancelWithNoJobIsNoOp ==
    [][(cancel_retrain /\ RunningProcs = {}) =>
           /\ reply' = [op |-> "cancel", status |-> 200,
                        message |-> "No training in progress"]
           /\ UNCHANGED <<_current_proc, procs, gens, pending_queue, moderator_actions>>]_vars

\* C4 witness: cancel() has answered, a job has run and exited, and the queue
\* and the log hold entries.
C4_Witness ==
    /\ reply.op = "cancel"
    /\ reply.message = "No training in progress"
    /\ procs # <<>>
    /\ RunningProcs = {}
    /\ pending_queue # <<>>
    /\ moderator_actions # <<>>

\* C5: a start() made when no job is running spawns the job and records its
\* handle: right after it returns, a job is running.
C5_StartSpawnsJob ==
    [][(retrain_trigger /\ RunningProcs = {}) =>
           (RunningProcs' # {} /\ _current_proc' # None)]_vars

IsPrefix(a, b) == Len(a) <= Len(b) /\ SubSeq(b, 1, Len(a)) = a

\* C6: subscribers streaming at the same time are attached to the same job
\* and see the same event sequence, one possibly being behind the other.
C6_SubscribersShareOneJob ==
    \A s1, s2 \in DOMAIN gens :
        (gens[s1].pc = "read" /\ gens[s2].pc = "read") =>
            /\ gens[s1]._current_proc = gens[s2]._current_proc
            /\ IsPrefix(gens[s1].sent, gens[s2].sent) \/ IsPrefix(gens[s2].sent, gens[s1].sent)

\* The final event the exit status calls for
StatusEvents(returncode) ==
    IF returncode = 0 THEN {"complete"}
    ELSE IF returncode = -2 THEN {"cancelled"}
    ELSE {"failed", "error"}

\* C7: the event appended after the job's output ended reflects the exit
\* status: complete for exit 0, cancelled for an interrupted job, failed or
\* error for any other exit; a crash is never reported as complete.
C7_FinalEventReflectsExitStatus ==
    \A s \in DOMAIN gens :
        gens[s].pc = "done" =>
            gens[s].sent[Len(gens[s].sent)].type
                \in StatusEvents(procs[gens[s]._current_proc[1]].returncode[1])

\* What the claim has a line forwarded as: the parsed event for a line that
\* parses as one, a raw event carrying the line for any other.
ClaimedEvent(line) ==
    LET parsed == JsonLoads(Strip(line)) IN
    IF parsed.ok /\ parsed.isdict THEN parsed.value
    ELSE [type |-> "raw", line |-> Strip(line)]

\* The events of a generator before the appended one
Forwarded(g) == IF g.pc = "done" THEN SubSeq(g.sent, 1, Len(g.sent) - 1) ELSE g.sent

\* C8: once a stream has ended, the events it forwarded before the appended
\* one are, one for one and in order, the lines its job wrote.
C8_EventsMatchLines ==
    \A s \in DOMAIN gens :
        gens[s].pc \in {"done", "raised"} =>
            LET out == procs[gens[s]._current_proc[1]].out IN
            Forwarded(gens[s]) = [i \in DOMAIN out |-> ClaimedEvent(out[i])]

\* C9: no line a job writes makes the stream end with an exception.
C9_NoLineEndsTheStream ==
    \A s \in DOMAIN gens : gens[s].pc # "raised"

-----------------------------------------------------------------------------
(* Claims about the review queue and the moderation log *)

\* C10: a successful moderation action on a queued comment_id removes that
\* one queue entry, the others keeping their content and order, and appends
\* one row carrying the comment_id, the queued text and the requested action,
\* the rows before it unchanged.
C10_ActionRemovesOneAppendsOne ==
    [][\A cid \in Ids, action \in Actions :
           (/\ \E committed \in BOOLEAN : handle_action(cid, action, 1, committed)
            /\ cid \in Keys(pending_queue)
            /\ reply'.status = 200) =>
               LET k == Lookup(pending_queue, cid)
                   n == Len(moderator_actions)
               IN  /\ pending_queue' = [i \in 1..(Len(pending_queue) - 1) |->
                                           IF i < k THEN pending_queue[i]
                                                    ELSE pending_queue[i + 1]]
                   /\ Len(moderator_actions') = n + 1
                   /\ SubSeq(moderator_actions', 1, n) = moderator_actions
                   /\ moderator_actions'[n + 1].comment_id = cid
                   /\ moderator_actions'[n + 1].text = pending_queue[k].text
                   /\ moderator_actions'[n + 1].action = action]_vars

\* C10 witness: an action has succeeded with another entry left in the queue
\* and an earlier row in the log.
C10_Witness ==
    /\ reply.op = "action"
    /\ reply.status = 200
    /\ pending_queue # <<>>
    /\ Len(moderator_actions) = 2
    /\ moderator_actions[2].text # moderator_actions[1].text

\* C11: a moderation action for a comment_id that is not in the review queue
\* is answered NotFound (404) and writes nothing: the moderation log and the
\* review queue are unchanged.
C11_ActionOnAbsentIdIsNotFound ==
    [][\A cid \in Ids, action \in Actions, committed \in BOOLEAN :
           (handle_action(cid, action, 1, committed) /\ cid \notin Keys(pending_queue)) =>
               /\ reply'.op = "action"
               /\ reply'.status = 404
               /\ UNCHANGED <<pending_queue, moderator_actions>>]_vars

\* C11 witness: an action was answered 404 while the queue holds another
\* entry and the log holds a row.
C11_Witness ==
    /\ reply.op = "action"
    /\ reply.status = 404
    /\ pending_queue # <<>>
    /\ moderator_actions # <<>>

\* C12: a remove(id) that succeeds leaves id out of the queue, an id that is
\* out of the queue comes back only by an enqueue of that id, and a remove(id)
\* of an id that is out of the queue is answered NotFound (404) and leaves
\* the queue unchanged: so after enqueue(id), remove(id) and no enqueue of id
\* since, a second remove(id) is NotFound and changes nothing.
C12_SecondRemoveIsNotFound ==
    [][\A cid \in Ids :
           /\ \A w \in Workers :
                  (delete_from_queue_del(w) /\ workers[w].comment_id = cid
                                            /\ reply'.status = 200) =>
                      (cid \in Keys(pending_queue) /\ cid \notin Keys(pending_queue'))
           /\ (cid \notin Keys(pending_queue) /\ cid \in Keys(pending_queue')) =>
                  \E text \in Texts, p1 \in Probs : detect(cid, text, p1, FALSE)
           /\ \A w \in Workers :
                  (delete_from_queue(w, cid) /\ cid \notin Keys(pending_queue)) =>
                      /\ reply'.op = "delete"
                      /\ reply'.status = 404
                      /\ UNCHANGED <<pending_queue, workers>>]_vars

\* C12 witness: a remove was answered 404 while the queue holds another entry.
C12_Witness ==
    /\ reply.op = "delete"
    /\ reply.status = 404
    /\ pending_queue # <<>>
    /\ \A w \in Workers : workers[w].pc = "idle"

\* C13: of the dismissals and moderation actions racing for one queued id,
\* the one that finds the entry removes it and succeeds (a moderation action
\* then appends its one row), and every one that finds it gone is answered
\* NotFound (404), not an internal error, and appends nothing.
C13_RemovedExactlyOnce ==
    [][\A cid \in Ids :
           /\ \A w \in Workers :
                  (delete_from_queue_del(w) /\ workers[w].comment_id = cid) =>
                      /\ reply'.status = IF cid \in Keys(pending_queue) THEN 200 ELSE 404
                      /\ cid \notin Keys(pending_queue')
                      /\ UNCHANGED moderator_actions
           /\ handle_action(cid, "approved", 1, TRUE) =>
                      /\ reply'.status = IF cid \in Keys(pending_queue) THEN 200 ELSE 404
                      /\ cid \notin Keys(pending_queue')
                      /\ Len(moderator_actions') =
                            Len(moderator_actions) + IF cid \in Keys(pending_queue) THEN 1 ELSE 0]_vars

\* C14: the review queue holds only undecided items: no id in the queue has a
\* decision recorded for it in the moderation log.
C14_QueueHoldsOnlyUndecided ==
    \A i \in DOMAIN moderator_actions :
        moderator_actions[i].comment_id \notin Keys(pending_queue)

\* C15: every record of the moderation log has action approved or rejected.
C15_ActionIsApprovedOrRejected ==
    \A i \in DOMAIN moderator_actions :
        moderator_actions[i].action \in {"approved", "rejected"}

\* C16: whatever the order in which the decisions were recorded, history
\* returns every row of the moderation log exactly once, each row's timestamp
\* greater than or equal to the next one's.
C16_HistoryIsCompleteAndDescending ==
    [][get_history =>
          LET body == reply'.body IN
          /\ \E p \in RowOrders(moderator_actions) :
                 /\ DOMAIN body = DOMAIN moderator_actions
                 /\ \A i \in DOMAIN body :
                        /\ body[i].comment_id = moderator_actions[p[i]].comment_id
                        /\ body[i].text = moderator_actions[p[i]].text
                        /\ body[i].action = moderator_actions[p[i]].action
                        /\ FromIsoFormat(body[i].timestamp) = moderator_actions[p[i]].timestamp
          /\ \A i \in DOMAIN body :
                 i + 1 \in DOMAIN body =>
                     FromIsoFormat(body[i].timestamp) >= FromIsoFormat(body[i + 1].timestamp)]_vars

\* history has returned two decisions that were recorded oldest first
C16_Witness ==
    /\ reply.op = "history"
    /\ Len(reply.body) = 2
    /\ Len(moderator_actions) = 2
    /\ moderator_actions[1].timestamp < moderator_actions[2].timestamp
    /\ reply.body[1].timestamp = IsoFormat(moderator_actions[2].timestamp)

\* The row of moderator_actions at index i is an approved/rejected decision that
\* no approved/rejected decision of the same comment_id is later than
IsLatestDecision(i) ==
    /\ moderator_actions[i].action \in {"approved", "rejected"}
    /\ \A j \in DOMAIN moderator_actions :
           (/\ moderator_actions[j].comment_id = moderator_actions[i].comment_id
            /\ moderator_actions[j].action \in {"approved", "rejected"})
               => moderator_actions[j].timestamp <= moderator_actions[i].timestamp

\* The feedback row of the decision at index i: approved is 1, rejected is 0
FeedbackRow(i) ==
    [clean_text |-> moderator_actions[i].text,
     Label      |-> IF moderator_actions[i].action = "approved" THEN 1 ELSE 0]

\* C17: in the merged output, every row that is not a row of the base dataset
\* is the feedback row (approved 1, rejected 0) of a decision that is the
\* latest of its comment_id, so an older decision contributes nothing; and the
\* text of the latest decision of every comment_id is in the output.
C17_OnlyLatestDecisionContributes ==
    [][(prepare_training_data /\ reply'.message = "Final dataset saved") =>
          LET out == disk'.merged_train_csv[1] IN
          /\ \A k \in DOMAIN out :
                 \/ \E o \in DOMAIN disk.train_csv : out[k] = disk.train_csv[o]
                 \/ \E i \in DOMAIN moderator_actions :
                        IsLatestDecision(i) /\ out[k] = FeedbackRow(i)
          /\ \A i \in DOMAIN moderator_actions :
                 (/\ IsLatestDecision(i)
                  /\ \A j \in DOMAIN moderator_actions :
                         (IsLatestDecision(j) /\ j # i) =>
                             moderator_actions[j].comment_id # moderator_actions[i].comment_id)
                     => \E k \in DOMAIN out : out[k].clean_text = moderator_actions[i].text]_vars

\* The script has merged a log where c1 was approved and later, under another
\* text, rejected: the later row is in the output and the earlier one is not
C17_Witness ==
    /\ reply.op = "build" /\ reply.message = "Final dataset saved"
    /\ \E i, j \in DOMAIN moderator_actions :
           /\ moderator_actions[i].comment_id = moderator_actions[j].comment_id
           /\ moderator_actions[i].action = "approved"
           /\ moderator_actions[j].action = "rejected"
           /\ moderator_actions[i].timestamp < moderator_actions[j].timestamp
           /\ moderator_actions[i].text # moderator_actions[j].text
           /\ \E k \in DOMAIN disk.merged_train_csv[1] :
                  disk.merged_train_csv[1][k] = FeedbackRow(j)
           /\ \A k \in DOMAIN disk.merged_train_csv[1] :
                  disk.merged_train_csv[1][k].clean_text # moderator_actions[i].text

\* C18: run against a log with no approved/rejected decision, the script
\* reports that there is no feedback, ends normally, and leaves the output file
\* as it was, absent or not.
C18_NoFeedbackWritesNothing ==
    [][(/\ prepare_training_data
        /\ \A i \in DOMAIN moderator_actions :
               moderator_actions[i].action \notin {"approved", "rejected"}) =>
          /\ reply' = [op |-> "build", status |-> 0, message |-> "No moderator feedback found."]
          /\ UNCHANGED disk]_vars

\* The script has run against a log of other actions only, beside an output
\* file of an earlier run
C18_Witness ==
    /\ reply.op = "build" /\ reply.message = "No moderator feedback found."
    /\ moderator_actions # <<>>
    /\ disk.merged_train_csv # None

\* The percentages of the progress events the script has printed, in order
Percentages ==
    LET IsProgress(event) == event.type = "progress"
        events == SelectSeq(trainer.out, IsProgress)
    IN  [i \in DOMAIN events |-> events[i].progress]

\* C19: the percentages of a job's progress events are integers within
\* [0,100], each greater than the one before it (so no two are equal), and
\* when the job has run to its end the last one is 100.
C19_ProgressStrictlyIncreasesTo100 ==
    trainer.pc # "idle" =>
        LET percentages == Percentages IN
        /\ \A i \in DOMAIN percentages :
               /\ percentages[i] \in 0..100
               /\ i + 1 \in DOMAIN percentages => percentages[i] < percentages[i + 1]
        /\ trainer.pc = "done" =>
               percentages # <<>> /\ percentages[Len(percentages)] = 100

\* A job of more than 100 steps has run to its end: it started at 0 percent
\* and printed fewer progress events than it took steps
C19_Witness ==
    /\ trainer.pc = "done"
    /\ trainer.total_steps > 100
    /\ trainer.step = trainer.total_steps
    /\ trainer.out[3].type = "progress" /\ trainer.out[3].progress = 0
    /\ Cardinality({i \in DOMAIN trainer.out : trainer.out[i].type = "progress"}) < trainer.step

\* C20: an epoch overwrites the checkpoint and prints model_saved exactly when
\* its F1 is greater than the best of the job so far (0 at the start); the
\* best of the job never decreases.
C20_SavedIffStrictlyBetter ==
    [][(trainer.pc = "train" /\ trainer'.pc # "idle") =>
          /\ trainer'.best_f1 >= trainer.best_f1
          /\ \A f1_score \in F1s :
                 epoch_end(f1_score) =>
                     LET printed == {trainer'.out[i].type :
                                        i \in (Len(trainer.out) + 1)..Len(trainer'.out)}
                     IN  /\ ("model_saved" \in printed) <=> (f1_score > trainer.best_f1)
                         /\ (disk'.best_model_pt # disk.best_model_pt) <=>
                                (f1_score > trainer.best_f1)
                         /\ f1_score > trainer.best_f1 =>
                                disk'.best_model_pt = [epoch |-> trainer.epoch, f1 |-> f1_score]
                         /\ trainer'.best_f1 =
                                IF f1_score > trainer.best_f1 THEN f1_score ELSE trainer.best_f1]_vars

\* Epoch 1 saved at F1 0.5, and epochs 2 and 3 that scored 0.5 and 0 saved
\* nothing
C20_Witness ==
    /\ trainer.pc = "done"
    /\ trainer.best_f1 = 5
    /\ disk.best_model_pt = [epoch |-> 1, f1 |-> 5]
    /\ \E i, j \in DOMAIN trainer.out :
           /\ trainer.out[i] = [type |-> "epoch_end", epoch |-> 2, f1 |-> 5]
           /\ trainer.out[j] = [type |-> "epoch_end", epoch |-> 3, f1 |-> 0]
    /\ Cardinality({i \in DOMAIN trainer.out : trainer.out[i].type = "model_saved"}) = 1

\* C21: in the merged output no two rows have the same text, every text is a
\* text of the base dataset or of a latest decision, and the first base row
\* of every base text is in it: a text of the base dataset keeps its base
\* label whatever label a decision on the same text carries.
C21_FirstRowOfEachTextWins ==
    [][(prepare_training_data /\ reply'.message = "Final dataset saved") =>
          LET out  == disk'.merged_train_csv[1]
              base == disk.train_csv
          IN  /\ \A k, l \in DOMAIN out : k # l => out[k].clean_text # out[l].clean_text
              /\ {out[k].clean_text : k \in DOMAIN out} \subseteq
                    {base[o].clean_text : o \in DOMAIN base} \cup
                    {moderator_actions[i].text :
                        i \in {j \in DOMAIN moderator_actions : IsLatestDecision(j)}}
              /\ \A o \in DOMAIN base :
                     (\A n \in 1..(o - 1) : base[n].clean_text # base[o].clean_text) =>
                         \E k \in DOMAIN out : out[k] = base[o]]_vars

\* The script has merged a base dataset that labels "go away" 0 with a log
\* whose only decision approves "go away": the output has the text once, 0
C21_Witness ==
    /\ reply.op = "build" /\ reply.message = "Final dataset saved"
    /\ disk.train_csv = <<[clean_text |-> "go away", Label |-> 0]>>
    /\ Len(moderator_actions) = 1
    /\ moderator_actions[1].text = "go away"
    /\ moderator_actions[1].action = "approved"
    /\ disk.merged_train_csv = Some(<<[clean_text |-> "go away", Label |-> 0]>>)

\* C22: a classification request changes the review queue only when its
\* answer is the label cyberbully: the queue then holds exactly one record
\* for that comment_id, with the request's text, and every other record is as
\* it was; with any other answer, an internal error included, the queue is
\* unchanged, and listing the queue leaves it unchanged.
C22_DetectEnqueuesOnlyFlagged ==
    [][/\ \A cid \in Ids, text \in Texts, p1 \in Probs, raises \in BOOLEAN :
              (reply'.op = "detect" /\ detect(cid, text, p1, raises)) =>
                  IF reply'.status = 200 /\ reply'.message = "cyberbully"
                  THEN /\ Cardinality({i \in DOMAIN pending_queue' :
                                          pending_queue'[i].comment_id = cid}) = 1
                       /\ \E i \in DOMAIN pending_queue' :
                              /\ pending_queue'[i].comment_id = cid
                              /\ pending_queue'[i].text = text
                       /\ \A other \in Ids \ {cid} :
                              {pending_queue'[i] : i \in {j \in DOMAIN pending_queue' :
                                                           pending_queue'[j].comment_id = other}}
                              = {pending_queue[i] : i \in {j \in DOMAIN pending_queue :
                                                           pending_queue[j].comment_id = other}}
                       /\ \A i, j \in DOMAIN pending_queue' :
                              i # j => pending_queue'[i].comment_id # pending_queue'[j].comment_id
                  ELSE UNCHANGED pending_queue
       /\ get_queue => UNCHANGED pending_queue]_vars

\* A request flagged cyberbully has been answered while the queue holds both
\* ids, each once
C22_Witness ==
    /\ reply.op = "detect" /\ reply.message = "cyberbully"
    /\ Len(pending_queue) = 2
    /\ pending_queue[1].comment_id # pending_queue[2].comment_id
    /\ pending_queue[1].text # pending_queue[2].text

====
